---- MODULE Spec2Model ----
(***************************************************************************)
(* Model of projects/unit3/build-mcp-server/starter/server.py: the five    *)
(* data-producing tools of the "pr-agent" MCP server.                      *)
(*                                                                         *)
(* Every tool returns json.dumps(payload).  The model keeps the payload    *)
(* itself and its JSON type (ret.kind = "array" or "object"); a call that  *)
(* lets an exception escape has ret.kind = "raise".  Python strings whose  *)
(* characters matter (diff text, timestamps, change types) are sequences   *)
(* of one-character strings; strings that are only compared for equality   *)
(* are TLA+ strings.                                                       *)
(***************************************************************************)
EXTENDS Integers, Sequences, FiniteSets, TLC

VARIABLES
    EVENTS_FILE,   \* the event store: absent, unparseable, or a JSON array
    templates,     \* the template files of TEMPLATES_DIR that can be read
    git,           \* what the git child processes do: exit status, diff text
    ret,           \* the last tool call: its arguments and what it returned
    prev           \* the outcome of the status poll before the last one

vars == <<EVENTS_FILE, templates, git, ret, prev>>

\* ---------------------------------------------------------------- bounds
MaxLog == 3        \* longest event log
MaxDiffChars == 5  \* longest diff text, in characters
MaxLines == 3      \* largest max_diff_lines argument

\* ------------------------------------------------------- python helpers
\* Python's None, and JSON null
None == "<None>"
\* a key that a dict does not have
Missing == "<missing>"
MissingTs == <<Missing>>

Min(a, b) == IF a < b THEN a ELSE b
Max(a, b) == IF a > b THEN a ELSE b

\* seq[:k]
PySliceTo(seq, k) ==
    LET n == Len(seq)
        stop == IF k >= 0 THEN Min(k, n) ELSE Max(n + k, 0)
    IN SubSeq(seq, 1, stop)

\* seq[k:]
PySliceFrom(seq, k) ==
    LET n == Len(seq)
        start == IF k >= 0 THEN Min(k, n) ELSE Max(n + k, 0)
    IN SubSeq(seq, start + 1, n)

\* the order of the characters that occur in the modelled strings
Ord(c) ==
    CASE c = "\n" -> 10
      [] c = " " -> 32
      [] c = "-" -> 45
      [] c = "0" -> 48
      [] c = "1" -> 49
      [] c = "2" -> 50
      [] c = "9" -> 57
      [] c = "a" -> 97
      [] c = "b" -> 98
      [] OTHER -> 0

\* a comparison that puts the longer string first, as for numbers
RECURSIVE StrGreater_Numeric(_, _)
StrGreater_Numeric(s, t) ==
    \/ Len(s) > Len(t)
    \/ /\ Len(s) = Len(t)
       /\ s # <<>>
       /\ \/ Ord(Head(s)) > Ord(Head(t))
          \/ Head(s) = Head(t) /\ StrGreater_Numeric(Tail(s), Tail(t))

\* s > t on str: decided by the first differing character, a proper prefix
\* is the smaller
RECURSIVE StrGreater(_, _)
StrGreater(s, t) ==
    IF s = <<>> THEN FALSE
    ELSE IF t = <<>> THEN TRUE
    ELSE IF Head(s) = Head(t) THEN StrGreater(Tail(s), Tail(t))
    ELSE Ord(Head(s)) > Ord(Head(t))

\* ------------------------------------------------------------ event store
Timestamps == {<<"1">>, <<"1", "0">>, <<"9">>}

\* the two shapes of a well-formed workflow_run event the producer delivers
RunEvent(name, ts, v) ==
    [has_run |-> TRUE, name |-> name, updated_at |-> ts,
     status |-> IF v = 1 THEN "completed" ELSE "in_progress",
     conclusion |-> IF v = 1 THEN "success" ELSE Missing,
     html_url |-> IF v = 1 THEN "u1" ELSE "u2",
     repository |-> IF v = 1 THEN "o/r" ELSE Missing]

\* an event of another kind: no workflow_run key
OtherEvent ==
    [has_run |-> FALSE, name |-> Missing, updated_at |-> MissingTs,
     status |-> Missing, conclusion |-> Missing, html_url |-> Missing,
     repository |-> Missing]

WellFormedEvents ==
    {RunEvent("CI", t, v) : t \in Timestamps, v \in {1, 2}}
        \cup {RunEvent("deploy", <<"1", "0">>, 1), RunEvent("deploy", <<"9">>, 2)}

\* workflow_run events that lack one of the keys the aggregator subscripts
MalformedEvents ==
    { [RunEvent("CI", <<"9">>, 1) EXCEPT !.name = Missing],
      [RunEvent("CI", <<"1">>, 1) EXCEPT !.status = Missing],
      [RunEvent("CI", <<"9">>, 1) EXCEPT !.updated_at = MissingTs],
      [RunEvent("CI", <<"1">>, 2) EXCEPT !.html_url = Missing] }

Events == WellFormedEvents \cup {OtherEvent} \cup MalformedEvents

RECURSIVE SeqsUpTo(_, _)
SeqsUpTo(S, n) ==
    IF n = 0 THEN {<<>>}
    ELSE LET shorter == SeqsUpTo(S, n - 1)
         IN shorter \cup {Append(s, x) : s \in {q \in shorter : Len(q) = n - 1}, x \in S}

Absent == [exists |-> FALSE, parses |-> FALSE, events |-> <<>>]
Corrupt == [exists |-> TRUE, parses |-> FALSE, events |-> <<>>]
Store(events) == [exists |-> TRUE, parses |-> TRUE, events |-> events]

NoCall == [op |-> "none", kind |-> "none"]

Raise(op, arg, exc) == [op |-> op, arg |-> arg, kind |-> "raise", value |-> exc]
Return(op, arg, kind, value) == [op |-> op, arg |-> arg, kind |-> kind, value |-> value]

\* ------------------------------------------------ get_recent_actions_events
\* the first limit events instead of the last
RecentSlice_First(events, limit) ==
    IF limit > 0 THEN PySliceTo(events, limit) ELSE events

\* lines 265-266
RecentSlice(events, limit) ==
    IF limit > 0 THEN PySliceFrom(events, -limit) ELSE events

recent_result(file, limit) ==
    IF ~file.exists THEN Return("get_recent_actions_events", limit, "array", <<>>)
    ELSE IF ~file.parses THEN Raise("get_recent_actions_events", limit, "JSONDecodeError")
    ELSE Return("get_recent_actions_events", limit, "array", RecentSlice(file.events, limit))

get_recent_actions_events(limit) ==
    /\ ret' = recent_result(EVENTS_FILE, limit)
    /\ UNCHANGED <<EVENTS_FILE, templates, git>>

\* ------------------------------------------------------ get_workflow_status
NoEventsMessage == [message |-> "No GitHub Action events found."]

\* bool(workflow_name)
Truthy(s) == s # None /\ s # ""

\* d.get(key): None for a key the dict lacks
Get(v) == IF v = Missing THEN None ELSE v

\* the filter without its name step
FilterRuns_NoName(events, workflow_name) ==
    SelectSeq(events, LAMBDA e : e.has_run)

FilterRuns(events, workflow_name) ==
    LET runs == SelectSeq(events, LAMBDA e : e.has_run)
    IN IF Truthy(workflow_name)
       THEN SelectSeq(runs, LAMBDA e : Get(e.name) = workflow_name)
       ELSE runs

Summary(e) ==
    [name |-> e.name, status |-> e.status, conclusion |-> Get(e.conclusion),
     updated_at |-> e.updated_at, url |-> e.html_url,
     repository |-> Get(e.repository)]

\* the position of the key in the dict, 0 when it is not a key
KeyIndex(workflows, name) ==
    IF \E i \in 1..Len(workflows) : workflows[i].name = name
    THEN CHOOSE i \in 1..Len(workflows) : workflows[i].name = name
    ELSE 0

\* building the dict value subscripts status, updated_at and html_url
Store1(acc, e, i) ==
    IF e.status = Missing \/ e.updated_at = MissingTs \/ e.html_url = Missing
    THEN [acc EXCEPT !.raised = TRUE]
    ELSE IF i = 0 THEN [acc EXCEPT !.dict = Append(@, Summary(e))]
    ELSE [acc EXCEPT !.dict[i] = Summary(e)]

\* one iteration of the loop, replacing on every event
FoldStep_Always(acc, e) ==
    IF e.name = Missing THEN [acc EXCEPT !.raised = TRUE]
    ELSE Store1(acc, e, KeyIndex(acc.dict, e.name))

\* one iteration of the loop, replacing on a tie as well
FoldStep_GreaterEq(acc, e) ==
    IF e.name = Missing THEN [acc EXCEPT !.raised = TRUE]
    ELSE LET i == KeyIndex(acc.dict, e.name)
         IN IF i = 0 THEN Store1(acc, e, 0)
            ELSE IF e.updated_at = MissingTs THEN [acc EXCEPT !.raised = TRUE]
            ELSE IF ~StrGreater(acc.dict[i].updated_at, e.updated_at)
            THEN Store1(acc, e, i)
            ELSE acc

\* one iteration of the loop of lines 302-314
FoldStep(acc, e) ==
    IF e.name = Missing THEN [acc EXCEPT !.raised = TRUE]
    ELSE LET i == KeyIndex(acc.dict, e.name)
         IN IF i = 0 THEN Store1(acc, e, 0)
            ELSE IF e.updated_at = MissingTs THEN [acc EXCEPT !.raised = TRUE]
            ELSE IF StrGreater(e.updated_at, acc.dict[i].updated_at)
            THEN Store1(acc, e, i)
            ELSE acc

RECURSIVE Fold(_, _)
Fold(acc, events) ==
    IF acc.raised \/ events = <<>> THEN acc
    ELSE Fold(FoldStep(acc, Head(events)), Tail(events))

\* the aggregation without the test for an empty list
status_result_NoEmptyCheck(file, workflow_name) ==
    IF ~file.exists THEN Return("get_workflow_status", workflow_name, "object", NoEventsMessage)
    ELSE IF ~file.parses THEN Raise("get_workflow_status", workflow_name, "JSONDecodeError")
    ELSE LET acc == Fold([raised |-> FALSE, dict |-> <<>>],
                         FilterRuns(file.events, workflow_name))
         IN IF acc.raised THEN Raise("get_workflow_status", workflow_name, "KeyError")
            ELSE Return("get_workflow_status", workflow_name, "array", acc.dict)

status_result(file, workflow_name) ==
    IF ~file.exists THEN Return("get_workflow_status", workflow_name, "object", NoEventsMessage)
    ELSE IF ~file.parses THEN Raise("get_workflow_status", workflow_name, "JSONDecodeError")
    ELSE IF file.events = <<>>
    THEN Return("get_workflow_status", workflow_name, "object", NoEventsMessage)
    ELSE LET acc == Fold([raised |-> FALSE, dict |-> <<>>],
                         FilterRuns(file.events, workflow_name))
         IN IF acc.raised THEN Raise("get_workflow_status", workflow_name, "KeyError")
            ELSE Return("get_workflow_status", workflow_name, "array", acc.dict)

get_workflow_status(workflow_name) ==
    /\ ret' = status_result(EVENTS_FILE, workflow_name)
    /\ UNCHANGED <<EVENTS_FILE, templates, git>>

\* --------------------------------------------------------- template catalog
\* DEFAULT_TEMPLATES, in the order of the dict
DEFAULT_TEMPLATES ==
    << <<"bug.md", "Bug Fix">>, <<"feature.md", "Feature">>,
       <<"docs.md", "Documentation">>, <<"refactor.md", "Refactor">>,
       <<"test.md", "Test">>, <<"performance.md", "Performance">>,
       <<"security.md", "Security">> >>

TemplateFiles == {DEFAULT_TEMPLATES[i][1] : i \in 1..Len(DEFAULT_TEMPLATES)}

\* TYPE_MAPPING, keys as character sequences
TYPE_MAPPING ==
    << << <<"b", "u", "g">>, "bug.md" >>,
       << <<"f", "i", "x">>, "bug.md" >>,
       << <<"f", "e", "a", "t", "u", "r", "e">>, "feature.md" >>,
       << <<"e", "n", "h", "a", "n", "c", "e", "m", "e", "n", "t">>, "feature.md" >>,
       << <<"d", "o", "c", "s">>, "docs.md" >>,
       << <<"d", "o", "c", "u", "m", "e", "n", "t", "a", "t", "i", "o", "n">>, "docs.md" >>,
       << <<"r", "e", "f", "a", "c", "t", "o", "r">>, "refactor.md" >>,
       << <<"c", "l", "e", "a", "n", "u", "p">>, "refactor.md" >>,
       << <<"t", "e", "s", "t">>, "test.md" >>,
       << <<"t", "e", "s", "t", "i", "n", "g">>, "test.md" >>,
       << <<"p", "e", "r", "f", "o", "r", "m", "a", "n", "c", "e">>, "performance.md" >>,
       << <<"o", "p", "t", "i", "m", "i", "z", "a", "t", "i", "o", "n">>, "performance.md" >>,
       << <<"s", "e", "c", "u", "r", "i", "t", "y">>, "security.md" >> >>

\* a character left as it is
LowerChar_Identity(c) == c

\* str.lower() on one character, for the capitals the inputs use
LowerChar(c) ==
    CASE c = "B" -> "b"
      [] c = "U" -> "u"
      [] c = "G" -> "g"
      [] c = "F" -> "f"
      [] c = "I" -> "i"
      [] c = "X" -> "x"
      [] c = "D" -> "d"
      [] c = "O" -> "o"
      [] c = "C" -> "c"
      [] c = "S" -> "s"
      [] OTHER -> c

\* str.lower()
Lower(s) == [i \in 1..Len(s) |-> LowerChar(s[i])]

\* TYPE_MAPPING.get(key, default)
TypeLookup(key, default) ==
    IF \E i \in 1..Len(TYPE_MAPPING) : TYPE_MAPPING[i][1] = key
    THEN TYPE_MAPPING[CHOOSE i \in 1..Len(TYPE_MAPPING) : TYPE_MAPPING[i][1] = key][2]
    ELSE default

\* the list comprehension of get_pr_templates; read_text() raises on a file
\* that is missing or unreadable
TemplateList(files) ==
    [i \in 1..Len(DEFAULT_TEMPLATES) |->
        [filename |-> DEFAULT_TEMPLATES[i][1], type |-> DEFAULT_TEMPLATES[i][2],
         content |-> files[DEFAULT_TEMPLATES[i][1]]]]

AllReadable(files) == \A f \in TemplateFiles : files[f] # Missing

templates_result(files) ==
    IF AllReadable(files)
    THEN Return("get_pr_templates", None, "array", TemplateList(files))
    ELSE Raise("get_pr_templates", None, "FileNotFoundError")

get_pr_templates ==
    /\ ret' = templates_result(templates)
    /\ UNCHANGED <<EVENTS_FILE, templates, git, prev>>

\* next((t for t in templates if t["filename"] == template_file), templates[0])
SelectTemplate(list, template_file) ==
    IF \E i \in 1..Len(list) : list[i].filename = template_file
    THEN list[CHOOSE i \in 1..Len(list) :
                /\ list[i].filename = template_file
                /\ \A j \in 1..(i - 1) : list[j].filename # template_file]
    ELSE list[1]

suggest_result(files, changes_summary, change_type) ==
    LET arg == [changes_summary |-> changes_summary, change_type |-> change_type]
        response == templates_result(files)
    IN IF response.kind = "raise"
       THEN Raise("suggest_template", arg, response.value)
       ELSE LET template_file == TypeLookup(Lower(change_type), "feature.md")
                selected_template == SelectTemplate(response.value, template_file)
            IN Return("suggest_template", arg, "object",
                      [recommended_template |-> selected_template,
                       reasoning |-> <<"Based on your analysis: '", changes_summary,
                                       "', this appears to be a ", change_type,
                                       " change.">>,
                       template_content |-> selected_template.content,
                       usage_hint |-> "Claude can help you fill out this template based on the specific changes in your PR."])

suggest_template(changes_summary, change_type) ==
    /\ ret' = suggest_result(templates, changes_summary, change_type)
    /\ UNCHANGED <<EVENTS_FILE, templates, git, prev>>

\* ------------------------------------------------------------ diff summary
\* str.split('\n')
RECURSIVE SplitLines(_)
SplitLines(text) ==
    IF text = <<>> THEN << <<>> >>
    ELSE LET rest == SplitLines(Tail(text))
         IN IF Head(text) = "\n" THEN << <<>> >> \o rest
            ELSE << <<Head(text)>> \o Head(rest) >> \o Tail(rest)

\* '\n'.join(lines)
RECURSIVE JoinLines(_)
JoinLines(lines) ==
    IF lines = <<>> THEN <<>>
    ELSE IF Len(lines) = 1 THEN Head(lines)
    ELSE Head(lines) \o <<"\n">> \o JoinLines(Tail(lines))

\* the two lines appended to a truncated diff; the fixed phrases are kept whole
TruncationNotice(shown, total) ==
    <<"\n", "\n", "... Output truncated. Showing ", ToString(shown), " of ",
      ToString(total), " lines...", "\n",
      "... Use max_diff_lines parameter to see more...">>

DiffPlaceholder == <<"Diff not included (set include_diff = True to see full diff)">>

\* lines 148-187: the diff, truncated, and total_diff_lines of the analysis
Analysis(stdout, include_diff, max_diff_lines) ==
    IF ~include_diff
    THEN [diff |-> DiffPlaceholder, truncated |-> FALSE, total_diff_lines |-> 0]
    ELSE LET diff_lines == SplitLines(stdout)
         IN IF Len(diff_lines) > max_diff_lines
            THEN [diff |-> JoinLines(PySliceTo(diff_lines, max_diff_lines))
                               \o TruncationNotice(max_diff_lines, Len(diff_lines)),
                  truncated |-> TRUE,
                  total_diff_lines |-> Len(diff_lines)]
            ELSE [diff |-> stdout, truncated |-> FALSE,
                  total_diff_lines |-> Len(diff_lines)]

analyze_result(g, include_diff, max_diff_lines) ==
    LET arg == [include_diff |-> include_diff, max_diff_lines |-> max_diff_lines]
    IN IF g.status = "CalledProcessError"
       THEN Return("analyze_file_changes", arg, "object", [error |-> "Git error: stderr"])
       ELSE IF g.status = "OSError"
       THEN Return("analyze_file_changes", arg, "object", [error |-> "str(e)"])
       ELSE Return("analyze_file_changes", arg, "object",
                   Analysis(g.diff, include_diff, max_diff_lines))

analyze_file_changes(include_diff, max_diff_lines) ==
    /\ ret' = analyze_result(git, include_diff, max_diff_lines)
    /\ UNCHANGED <<EVENTS_FILE, templates, git, prev>>

\* ------------------------------------------------------------ specifications
Limits == -1..(MaxLog + 1)
NameArgs == {None, "", "CI", "deploy", "ci"}

\* every template file present, each with a text of its own
AllTemplates == [f \in TemplateFiles |-> f]
NoGit == [status |-> "ok", diff |-> <<>>]

InitEvents ==
    /\ EVENTS_FILE \in {Absent, Corrupt} \cup {Store(s) : s \in SeqsUpTo(Events, MaxLog)}
    /\ templates = AllTemplates
    /\ git = NoGit
    /\ ret = NoCall
    /\ prev = NoCall

NextEvents ==
    \/ \E limit \in Limits : get_recent_actions_events(limit) /\ UNCHANGED prev
    \/ \E workflow_name \in NameArgs : get_workflow_status(workflow_name) /\ UNCHANGED prev

SpecEvents == InitEvents /\ [][NextEvents]_vars

\* ------------------------------------------- the producer and a polling client
\* the webhook receiver stores one more event at the end of the file
WebhookAppend(e) ==
    /\ Len(EVENTS_FILE.events) < MaxLog
    /\ EVENTS_FILE' = Store(Append(EVENTS_FILE.events, e))
    /\ UNCHANGED <<templates, git, ret, prev>>

\* a client asks for the status of all workflows, again and again
Poll ==
    /\ get_workflow_status(None)
    /\ prev' = ret

InitPoll ==
    /\ EVENTS_FILE \in {Absent, Store(<<>>)}
    /\ templates = AllTemplates
    /\ git = NoGit
    /\ ret = NoCall
    /\ prev = NoCall

NextPoll ==
    \/ \E e \in Events : WebhookAppend(e)
    \/ Poll

SpecPoll == InitPoll /\ [][NextPoll]_vars

\* ------------------------------------------------- template specification
ChangeTypes ==
    {TYPE_MAPPING[i][1] : i \in 1..Len(TYPE_MAPPING)}
        \cup { <<"B", "u", "g">>, <<"B", "U", "G">>, <<"F", "i", "x">>,
               <<"D", "O", "C", "S">>, <<>>, <<"x">>, <<" ", "b", "u", "g">>,
               <<"b", "u", "g", "s">>,
               <<"u", "n", "k", "n", "o", "w", "n", "-", "t", "y", "p", "e">> }

Summaries == {"x", "fixed null pointer"}

InitTemplates ==
    /\ EVENTS_FILE = Absent
    /\ templates \in {[f \in TemplateFiles |-> IF f \in gone THEN Missing ELSE f] :
                        gone \in SUBSET TemplateFiles}
    /\ git = NoGit
    /\ ret = NoCall
    /\ prev = NoCall

NextTemplates ==
    \/ get_pr_templates
    \/ \E changes_summary \in Summaries, change_type \in ChangeTypes :
          suggest_template(changes_summary, change_type)

SpecTemplates == InitTemplates /\ [][NextTemplates]_vars

\* ------------------------------------------------------ diff specification
DiffChars == {"a", "b", "\n"}
GitOutcomes == {"ok", "CalledProcessError", "OSError"}

InitDiff ==
    /\ EVENTS_FILE = Absent
    /\ templates = AllTemplates
    /\ git \in [status : GitOutcomes, diff : SeqsUpTo(DiffChars, MaxDiffChars)]
    /\ ret = NoCall
    /\ prev = NoCall

NextDiff ==
    \E include_diff \in BOOLEAN, max_diff_lines \in -1..MaxLines :
        analyze_file_changes(include_diff, max_diff_lines)

SpecDiff == InitDiff /\ [][NextDiff]_vars

\* ------------------------------------------------- properties: event store
\* s < t in lexicographic order: at the first position where they differ, s has
\* ended or holds the smaller character
LexLess(s, t) ==
    \E k \in 1..(Len(t)) :
        /\ k <= Len(s) + 1
        /\ \A j \in 1..(k - 1) : s[j] = t[j]
        /\ \/ k = Len(s) + 1
           \/ k <= Len(s) /\ Ord(s[k]) < Ord(t[k])

Log == EVENTS_FILE.events
StoreReadable == EVENTS_FILE.exists /\ EVENTS_FILE.parses

IsStatusList(r) == r.op = "get_workflow_status" /\ r.kind = "array"

\* the places of the log that hold a workflow-run event of this name
RunsNamed(name) == {k \in 1..Len(Log) : Log[k].has_run /\ Log[k].name = name}

FromEvent(s, e) ==
    /\ s.name = e.name
    /\ s.updated_at = e.updated_at
    /\ s.status = e.status
    /\ s.conclusion = (IF e.conclusion = Missing THEN None ELSE e.conclusion)
    /\ s.url = e.html_url
    /\ s.repository = (IF e.repository = Missing THEN None ELSE e.repository)

\* the places that hold the greatest updated_at among the run events of a name
Latest(name) ==
    {k \in RunsNamed(name) :
        \A l \in RunsNamed(name) : ~LexLess(Log[k].updated_at, Log[l].updated_at)}

SetMin(S) == CHOOSE k \in S : \A l \in S : k <= l
SetMax(S) == CHOOSE k \in S : \A l \in S : k >= l

\* C1: a status result holds at most one summary per workflow name, and each
\* summary carries the lexicographically greatest updated_at of the run events
\* of its name, with its other fields taken from one event that has it.
C1_LatestPerName ==
    IsStatusList(ret) =>
        /\ \A i, j \in 1..Len(ret.value) :
              ret.value[i].name = ret.value[j].name => i = j
        /\ \A i \in 1..Len(ret.value) :
              \E k \in Latest(ret.value[i].name) : FromEvent(ret.value[i], Log[k])

\* C1: two run events of one name, the later one with the smaller timestamp,
\* and a status call of no name that returned a summary
C1_Witness ==
    /\ IsStatusList(ret) /\ ret.arg = None /\ Len(ret.value) >= 1
    /\ \E k, l \in RunsNamed("CI") :
          k < l /\ LexLess(Log[l].updated_at, Log[k].updated_at)

\* C5: on a readable store of n events, limit <= 0 returns the stored sequence
\* and limit = k > 0 returns its last min(k, n) events in their order.
C5_RecentSlice ==
    (ret.op = "get_recent_actions_events" /\ StoreReadable) =>
        /\ ret.kind = "array"
        /\ ret.arg <= 0 => ret.value = Log
        /\ ret.arg > 0 =>
              /\ Len(ret.value) = (IF ret.arg < Len(Log) THEN ret.arg ELSE Len(Log))
              /\ \A i \in 1..Len(ret.value) :
                    ret.value[i] = Log[Len(Log) - Len(ret.value) + i]

\* C5: a limit smaller than the log cut events off its front
C5_Witness ==
    /\ ret.op = "get_recent_actions_events" /\ StoreReadable
    /\ ret.arg = 2 /\ Len(Log) = 3 /\ Log[1] # Log[3]
    /\ ret.kind = "array" /\ Len(ret.value) = 2

\* C6 as stated: among the run events of a name that tie on the greatest
\* updated_at, the summary is built from the last one in the log.
C6_LastTieWins ==
    (IsStatusList(ret) /\ \A k \in 1..Len(Log) : Log[k] \notin MalformedEvents) =>
        \A i \in 1..Len(ret.value) :
            FromEvent(ret.value[i], Log[SetMax(Latest(ret.value[i].name))])

\* C6 amended: among the run events of a name that tie on the greatest
\* updated_at, the summary is built from the first one in the log.
C6_FirstTieWins ==
    IsStatusList(ret) =>
        \A i \in 1..Len(ret.value) :
            FromEvent(ret.value[i], Log[SetMin(Latest(ret.value[i].name))])

\* C6: two differing events of one name tie on its greatest updated_at
C6_Witness ==
    /\ IsStatusList(ret) /\ Len(ret.value) >= 1
    /\ \E k, l \in Latest(ret.value[1].name) :
          k < l /\ Log[k].html_url # Log[l].html_url

\* C7: with the store absent, the recent-events tool returns an empty array and
\* the status tool an object holding only a message; the status tool returns
\* that same object for a store holding an empty array.
C7_AbsentIsEmpty ==
    /\ (ret.op = "get_recent_actions_events" /\ ~EVENTS_FILE.exists) =>
          ret.kind = "array" /\ ret.value = <<>>
    /\ (/\ ret.op = "get_workflow_status"
        /\ ~EVENTS_FILE.exists \/ (StoreReadable /\ Log = <<>>)) =>
          /\ ret.kind = "object"
          /\ ret.value = [message |-> "No GitHub Action events found."]

\* C7: the status tool was called on a store that holds an empty array
C7_Witness ==
    /\ ret.op = "get_workflow_status" /\ StoreReadable /\ Log = <<>>
    /\ ret.kind = "object" /\ DOMAIN ret.value = {"message"}

\* C8 as stated: every summary of a status call that was given a workflow name
\* has that name.
C8_OnlyGivenName ==
    (IsStatusList(ret) /\ ret.arg # None) =>
        \A i \in 1..Len(ret.value) : ret.value[i].name = ret.arg

\* C8 amended: a status call given a non-empty workflow name on a readable,
\* non-empty store fails only on a malformed run event of that name; otherwise
\* it returns the one summary of that name when the log has a run event of it
\* and nothing when it has none.
C8_OnlyNonEmptyName ==
    (/\ ret.op = "get_workflow_status" /\ ret.arg # None /\ ret.arg # ""
     /\ StoreReadable /\ Log # <<>>) =>
        /\ ret.kind = "raise" =>
              \E k \in RunsNamed(ret.arg) : Log[k] \in MalformedEvents
        /\ ret.kind # "raise" =>
              /\ ret.kind = "array"
              /\ \A i \in 1..Len(ret.value) : ret.value[i].name = ret.arg
              /\ Len(ret.value) = (IF RunsNamed(ret.arg) = {} THEN 0 ELSE 1)

\* C8: a log with run events of two names and an event of another kind, asked
\* for one of the names
C8_Witness ==
    /\ IsStatusList(ret) /\ ret.arg = "deploy" /\ Len(ret.value) = 1
    /\ RunsNamed("CI") # {} /\ RunsNamed("deploy") # {}
    /\ \E k \in 1..Len(Log) : ~Log[k].has_run

\* C10: from one status poll to the next, with appends in between, every
\* workflow name stays in the result and its updated_at does not decrease.
C10_Monotone ==
    (IsStatusList(prev) /\ IsStatusList(ret)) =>
        \A i \in 1..Len(prev.value) :
            \E j \in 1..Len(ret.value) :
                /\ ret.value[j].name = prev.value[i].name
                /\ ~LexLess(ret.value[j].updated_at, prev.value[i].updated_at)

\* C10: two polls with an append between them that raised a workflow's updated_at
C10_Witness ==
    /\ IsStatusList(prev) /\ IsStatusList(ret)
    /\ \E i \in 1..Len(prev.value) : \E j \in 1..Len(ret.value) :
          /\ ret.value[j].name = prev.value[i].name
          /\ LexLess(prev.value[i].updated_at, ret.value[j].updated_at)

\* --------------------------------------------------- properties: templates
\* C2 as stated: no tool call lets an exception escape; with a template file
\* missing, a catalog tool returns an object that has an error field.
C2_AlwaysErrorPayload ==
    ret.op # "none" =>
        /\ ret.kind # "raise"
        /\ (ret.op \in {"get_pr_templates", "suggest_template"} /\ ~AllReadable(templates))
              => (ret.kind = "object" /\ "error" \in DOMAIN ret.value)

\* the capitals of the change types and their lower-case letters
CasePairs ==
    {<<"B", "b">>, <<"U", "u">>, <<"G", "g">>, <<"F", "f">>, <<"I", "i">>,
     <<"X", "x">>, <<"D", "d">>, <<"O", "o">>, <<"C", "c">>, <<"S", "s">>}

\* key is s in lower case
IsLowerCaseOf(key, s) ==
    /\ Len(key) = Len(s)
    /\ \A i \in 1..Len(s) :
          IF \E pr \in CasePairs : pr[1] = s[i]
          THEN <<s[i], key[i]>> \in CasePairs
          ELSE key[i] = s[i]

\* the file the type table gives for a change type, feature.md when it has none
TableFile(change_type) ==
    IF \E i \in 1..Len(TYPE_MAPPING) : IsLowerCaseOf(TYPE_MAPPING[i][1], change_type)
    THEN TYPE_MAPPING[CHOOSE i \in 1..Len(TYPE_MAPPING) :
                        IsLowerCaseOf(TYPE_MAPPING[i][1], change_type)][2]
    ELSE "feature.md"

\* C9: with every template readable, suggest_template returns the content of
\* the file the type table gives for the lower-cased change type, the feature
\* template for a type the table lacks, whatever the summary.
C9_TemplateByType ==
    (ret.op = "suggest_template" /\ AllReadable(templates)) =>
        /\ ret.kind = "object"
        /\ ret.value.template_content = templates[TableFile(ret.arg.change_type)]
        /\ ret.value.recommended_template.filename = TableFile(ret.arg.change_type)
        /\ ret.arg.change_type \in {<<"b", "u", "g">>, <<"B", "u", "g">>, <<"f", "i", "x">>}
              => ret.value.template_content = templates["bug.md"]

\* C9: a capitalised type of the table got the bug template
C9_Witness ==
    /\ ret.op = "suggest_template" /\ AllReadable(templates)
    /\ ret.arg.change_type = <<"B", "u", "g">>
    /\ ret.kind = "object"
    /\ ret.value.template_content = templates["bug.md"]
    /\ templates["bug.md"] # templates["feature.md"]

\* -------------------------------------------------------- properties: diff
\* the number of lines of a text: its newlines, and a last line without one
LineCount(text) ==
    Cardinality({i \in 1..Len(text) : text[i] = "\n"})
        + (IF text # <<>> /\ text[Len(text)] # "\n" THEN 1 ELSE 0)

\* the first m lines of a text of more than m lines, without the m-th newline
FirstLines(text, m) ==
    LET i == CHOOSE i \in 1..Len(text) :
                /\ text[i] = "\n"
                /\ Cardinality({j \in 1..i : text[j] = "\n"}) = m
    IN SubSeq(text, 1, i - 1)

IsNotice(s) ==
    \E shown, total \in 0..(MaxDiffChars + 2) : s = TruncationNotice(shown, total)

DiffCall ==
    /\ ret.op = "analyze_file_changes"
    /\ git.status = "ok"
    /\ ret.arg.include_diff

\* C3 as stated: a diff of at most max_diff_lines > 0 lines comes back unchanged,
\* not truncated, with total_diff_lines its number of lines.
C3_WithinLimit ==
    (DiffCall /\ ret.arg.max_diff_lines > 0
        /\ LineCount(git.diff) <= ret.arg.max_diff_lines) =>
        /\ ret.value.truncated = FALSE
        /\ ret.value.diff = git.diff
        /\ ret.value.total_diff_lines = LineCount(git.diff)

\* C4 as stated: a diff of more than max_diff_lines > 0 lines comes back as its
\* first max_diff_lines lines and a truncation notice, truncated, with
\* total_diff_lines its number of lines.
C4_OverLimit ==
    (DiffCall /\ ret.arg.max_diff_lines > 0
        /\ LineCount(git.diff) > ret.arg.max_diff_lines) =>
        /\ ret.value.truncated = TRUE
        /\ \E notice \in {SubSeq(ret.value.diff, k, Len(ret.value.diff)) :
                              k \in 1..(Len(ret.value.diff) + 1)} :
              /\ IsNotice(notice)
              /\ ret.value.diff = FirstLines(git.diff, ret.arg.max_diff_lines) \o notice
        /\ ret.value.total_diff_lines = LineCount(git.diff)

\* C4 without the count: the text and the flag of a truncated diff
C4_TextOnly ==
    (DiffCall /\ ret.arg.max_diff_lines > 0
        /\ LineCount(git.diff) > ret.arg.max_diff_lines) =>
        /\ ret.value.truncated = TRUE
        /\ \E notice \in {SubSeq(ret.value.diff, k, Len(ret.value.diff)) :
                              k \in 1..(Len(ret.value.diff) + 1)} :
              /\ IsNotice(notice)
              /\ ret.value.diff = FirstLines(git.diff, ret.arg.max_diff_lines) \o notice

====
